---- MODULE Spec2Model ----
(***************************************************************************)
(* univang::condition_variable (src/condition_variable.hpp): a condition   *)
(* variable whose timed waits run on CLOCK_MONOTONIC.                      *)
(*                                                                         *)
(* The model holds the pthread condition object cv_ (its set of blocked    *)
(* threads), one std::mutex, each calling thread's std::unique_lock and    *)
(* position inside wait / wait_for / wait_until, a writer thread that      *)
(* changes the predicate's flag under the mutex and notifies, the          *)
(* monotonic clock and the caller's clock.                                 *)
(***************************************************************************)
EXTENDS Integers, FiniteSets, Sequences, TLC

\* ------------------------------------------------------------- constants

\* std::nano::den, the nanoseconds in one second (line 112).
NanoDen == 1000000000
\* ETIMEDOUT, the native code of an elapsed deadline (line 131; 110 on Linux).
ETIMEDOUT == 110
\* Native error codes other than 0 and ETIMEDOUT that pthread_cond_wait and
\* pthread_cond_timedwait can return: EPERM (1) and EINVAL (22).
EINVAL == 22
NativeErrors == {1, EINVAL}

\* ---------------------------------------------------------------- bounds

\* The monotonic clock is followed up to this many whole seconds.
MaxSec == 2
\* One step of the monotonic clock, in nanoseconds.
TickNanos == 500000000

\* Threads that call the wait operations.
Waiters == {"T1", "T2"}
\* The thread that writes the flag and notifies.
Writer == "W"
NoThread == "none"

\* The six wait variants (lines 41, 52, 58, 66, 77, 85).
WaitOps == {"wait", "wait_pred", "wait_for", "wait_for_pred",
            "wait_until", "wait_until_pred"}
PredOps == {"wait_pred", "wait_for_pred", "wait_until_pred"}
TimedOps == {"wait_for", "wait_for_pred", "wait_until", "wait_until_pred"}
UntilOps == {"wait_until", "wait_until_pred"}

\* The states of the caller's std::unique_lock<std::mutex>: it owns the mutex
\* (owns_lock() is true), it is associated with the mutex without owning it, or
\* it is associated with no mutex (mutex() is null).
LockStates == {"held", "unheld", "nomutex"}

\* Relative durations passed to wait_for, in nanoseconds (Period = std::nano).
RelTimes == {-1, 0, 700000000}
\* Those of the calls that run side by side.
HeldRelTimes == {0, 700000000}
\* Time points passed to wait_until and the readings of the caller's clock,
\* in nanoseconds on the caller's clock.
AbsTimes == {1000000000, 1700000000}
WallTimes == {1000000000, 2000000000}

\* The inputs of the deadline computation taken alone: durations around zero,
\* around one second and with a fractional part just under one second, and
\* clock readings with the nanosecond field at both ends of its range.
AbsRelTimes == {-1000000000, -1, 0, 1, 999999999, 1000000000, 1000000001,
                1500000000, 1999999999, 2000000000}
AbsNanos == {0, 1, 500000000, 999999998, 999999999}

\* The condition_variable objects that are constructed and destroyed.
Objects == {"cv1", "cv2"}

VARIABLES
    pc,          \* [Waiters -> position in the wait call]
    op,          \* [Waiters -> the wait variant being called]
    lk,          \* [Waiters -> state of the unique_lock passed in]
    rel_time,    \* [Waiters -> relative duration of the timed wait]
    abs_time,    \* [Waiters -> time point of wait_until]
    ts,          \* [Waiters -> the timespec deadline]
    ec,          \* [Waiters -> code returned by the underlying wait]
    status,      \* [Waiters -> cv_status of the last wait_until_]
    result,      \* [Waiters -> outcome of the call]
    primCalled,  \* [Waiters -> the underlying wait was invoked in this call]
    clockRead,   \* [Waiters -> clock_gettime was called in this call]
    lastPred,    \* [Waiters -> value of the last evaluation of pred()]
    cause,       \* [Waiters -> why the thread last left the blocked state]
    predEarly,   \* [Waiters -> the flag held on entry or later before the deadline]
    owner,       \* the thread that owns the mutex, or NoThread
    waiters,     \* the threads blocked on cv_
    flag,        \* the shared state the predicate reads
    now,         \* CLOCK_MONOTONIC
    wall,        \* the caller's Clock (wait_until)
    wpc,         \* position of the writer thread
    ctor,        \* [Objects -> the construction of a condition_variable]
    liveAttrs,   \* number of initialised pthread_condattr_t not yet destroyed
    liveConds    \* number of initialised pthread_cond_t not yet destroyed

callVars == <<op, lk, rel_time, abs_time>>
ghostVars == <<primCalled, clockRead, lastPred, cause, predEarly>>
envVars == <<now, wall>>
lifeVars == <<ctor, liveAttrs, liveConds>>
vars == <<pc, op, lk, rel_time, abs_time, ts, ec, status, result, primCalled,
          clockRead, lastPred, cause, predEarly, owner, waiters, flag, now,
          wall, wpc, ctor, liveAttrs, liveConds>>

\* ---------------------------------------------------------- time helpers

ZeroTs == [tv_sec |-> 0, tv_nsec |-> 0]

\* std::chrono::duration_cast<std::chrono::seconds> of a nanosecond count:
\* integer division truncating toward zero (line 106).
duration_cast_seconds(d) ==
    IF d >= 0 THEN d \div NanoDen ELSE -((-d) \div NanoDen)

\* to_abs_time_ with the carry test of line 112 written > instead of >=.
to_abs_time_carry_gt(d, clk) ==
    IF d <= 0
    THEN ZeroTs
    ELSE LET s == duration_cast_seconds(d)
             ns == d - s * NanoDen
             sec == clk.tv_sec + s
             nsec == clk.tv_nsec + ns
         IN  IF nsec > NanoDen
             THEN [tv_sec |-> sec + 1, tv_nsec |-> nsec - NanoDen]
             ELSE [tv_sec |-> sec, tv_nsec |-> nsec]

\* to_abs_time_ without the ++res.tv_sec of line 114.
to_abs_time_no_carry_sec(d, clk) ==
    IF d <= 0
    THEN ZeroTs
    ELSE LET s == duration_cast_seconds(d)
             ns == d - s * NanoDen
             sec == clk.tv_sec + s
             nsec == clk.tv_nsec + ns
         IN  IF nsec >= NanoDen
             THEN [tv_sec |-> sec, tv_nsec |-> nsec - NanoDen]
             ELSE [tv_sec |-> sec, tv_nsec |-> nsec]

\* to_abs_time_ with the test of line 100 written < instead of <=.
to_abs_time_lt_zero(d, clk) ==
    IF d < 0
    THEN ZeroTs
    ELSE LET s == duration_cast_seconds(d)
             ns == d - s * NanoDen
             sec == clk.tv_sec + s
             nsec == clk.tv_nsec + ns
         IN  IF nsec >= NanoDen
             THEN [tv_sec |-> sec + 1, tv_nsec |-> nsec - NanoDen]
             ELSE [tv_sec |-> sec, tv_nsec |-> nsec]

\* to_abs_time_ (lines 98-118): the zero timespec for d <= 0; otherwise the
\* clock reading clk plus d, the nanosecond field carried once.
to_abs_time_(d, clk) ==
    IF d <= 0
    THEN ZeroTs
    ELSE LET s == duration_cast_seconds(d)
             ns == d - s * NanoDen
             sec == clk.tv_sec + s
             nsec == clk.tv_nsec + ns
         IN  IF nsec >= NanoDen
             THEN [tv_sec |-> sec + 1, tv_nsec |-> nsec - NanoDen]
             ELSE [tv_sec |-> sec, tv_nsec |-> nsec]

\* Whether to_abs_time_ calls clock_gettime (line 105): only in the else branch.
reads_clock(d) == ~(d <= 0)

\* a is strictly before b.
TsBefore(a, b) ==
    \/ a.tv_sec < b.tv_sec
    \/ a.tv_sec = b.tv_sec /\ a.tv_nsec < b.tv_nsec

\* The deadline test of a condition object initialised without lines 14-16,
\* which measures the deadline on the wall clock.
elapsed_realtime(d) ==
    ~TsBefore([tv_sec |-> wall \div NanoDen, tv_nsec |-> wall % NanoDen], d)

\* pthread_cond_timedwait's deadline test: the deadline d has been reached.
Elapsed(d) == ~TsBefore(now, d)

\* pthread_cond_timedwait's validity test of the deadline (else EINVAL).
ValidTs(t) == t.tv_nsec >= 0 /\ t.tv_nsec < NanoDen

\* ------------------------------------------------------------ initial state

\* An object that does not exist: no construction in progress, cvattr and cv_
\* not initialised.
NoObject ==
    [pc |-> "none", ec |-> 0, cvattr |-> "uninit", cv_ |-> "uninit",
     destroys |-> 0, failedAt |-> "none"]

\* No call in progress, the mutex free, nobody blocked, the flag in either
\* state; of the objects that are constructed and destroyed none exists yet.
Init ==
    /\ pc = [t \in Waiters |-> "idle"]
    /\ op = [t \in Waiters |-> "none"]
    /\ lk = [t \in Waiters |-> "unheld"]
    /\ rel_time = [t \in Waiters |-> 0]
    /\ abs_time = [t \in Waiters |-> 0]
    /\ ts = [t \in Waiters |-> ZeroTs]
    /\ ec = [t \in Waiters |-> 0]
    /\ status = [t \in Waiters |-> "none"]
    /\ result = [t \in Waiters |-> "none"]
    /\ primCalled = [t \in Waiters |-> FALSE]
    /\ clockRead = [t \in Waiters |-> FALSE]
    /\ lastPred = [t \in Waiters |-> "none"]
    /\ cause = [t \in Waiters |-> "none"]
    /\ predEarly = [t \in Waiters |-> FALSE]
    /\ owner = NoThread
    /\ waiters = {}
    /\ flag \in BOOLEAN
    /\ now = [tv_sec |-> 1, tv_nsec |-> 0]
    /\ wall = 1000000000
    /\ wpc = "idle"
    /\ ctor = [o \in Objects |-> NoObject]
    /\ liveAttrs = 0
    /\ liveConds = 0

\* ------------------------------------------------------- entering a call

\* The first statement of each wait variant.
EntryPc(o) ==
    CASE o = "wait" -> "w_check"
      [] o = "wait_pred" -> "pred"
      [] o \in {"wait_for", "wait_for_pred"} -> "abs"
      [] OTHER -> "rel"

\* Thread t calls wait variant o with its unique_lock in state l, the
\* relative duration r (wait_for) or the time point a (wait_until). A thread
\* whose lock is held has locked the mutex before the call.
Call(t, o, l, r, a) ==
    /\ pc[t] = "idle"
    /\ l = "held" => owner = NoThread
    /\ owner' = IF l = "held" THEN t ELSE owner
    /\ pc' = [pc EXCEPT ![t] = EntryPc(o)]
    /\ op' = [op EXCEPT ![t] = o]
    /\ lk' = [lk EXCEPT ![t] = l]
    /\ rel_time' = [rel_time EXCEPT ![t] = r]
    /\ abs_time' = [abs_time EXCEPT ![t] = a]
    /\ UNCHANGED <<ts, ec, status, result, ghostVars, waiters, flag, envVars, wpc,
                   lifeVars>>

\* A call of any wait variant, with the lock in any state.
Begin(t) ==
    \E o \in WaitOps, l \in LockStates :
        \/ o \in {"wait", "wait_pred"} /\ Call(t, o, l, 0, 0)
        \/ o \in {"wait_for", "wait_for_pred"}
             /\ \E r \in RelTimes : Call(t, o, l, r, 0)
        \/ o \in UntilOps /\ \E a \in AbsTimes : Call(t, o, l, 0, a)

\* A call of any wait variant with the lock held, as the contract requires.
BeginHeld(t) ==
    \E o \in WaitOps :
        \/ o \in {"wait", "wait_pred"} /\ Call(t, o, "held", 0, 0)
        \/ o \in {"wait_for", "wait_for_pred"}
             /\ \E r \in HeldRelTimes : Call(t, o, "held", r, 0)
        \/ o \in UntilOps /\ \E a \in AbsTimes : Call(t, o, "held", 0, a)

\* ------------------------------------------------- the deadline (lines 57-118)

\* Lines 80 and 89 with the subtraction reversed: Clock::now() - abs_time.
until_rel_reversed(t) ==
    /\ pc[t] = "rel"
    /\ rel_time' = [rel_time EXCEPT ![t] = wall - abs_time[t]]
    /\ pc' = [pc EXCEPT ![t] = "abs"]
    /\ UNCHANGED <<op, lk, abs_time, ts, ec, status, result, ghostVars, owner,
                   waiters, flag, envVars, wpc, lifeVars>>

\* wait_until, lines 80 and 89: abs_time - Clock::now() on the caller's clock.
UntilRel(t) ==
    /\ pc[t] = "rel"
    /\ rel_time' = [rel_time EXCEPT ![t] = abs_time[t] - wall]
    /\ pc' = [pc EXCEPT ![t] = "abs"]
    /\ UNCHANGED <<op, lk, abs_time, ts, ec, status, result, ghostVars, owner,
                   waiters, flag, envVars, wpc, lifeVars>>

\* Lines 61, 69, 80, 89: ts = to_abs_time_(rel_time).
ToAbsTime(t) ==
    /\ pc[t] = "abs"
    /\ ts' = [ts EXCEPT ![t] = to_abs_time_(rel_time[t], now)]
    /\ clockRead' = [clockRead EXCEPT ![t] = reads_clock(rel_time[t])]
    /\ predEarly' = [predEarly EXCEPT ![t] = flag]
    /\ pc' = [pc EXCEPT ![t] = IF op[t] \in PredOps THEN "pred" ELSE "u_mtx"]
    /\ UNCHANGED <<callVars, ec, status, result, primCalled, lastPred, cause,
                   owner, waiters, flag, envVars, wpc, lifeVars>>

\* ------------------------------------------------ the predicate (lines 53, 70, 90)

\* pred() reads the shared flag.
pred == flag

\* The value of pred(), as recorded for the call.
pred_value == IF pred THEN "true" ELSE "false"

\* The loop of line 53 run as do { wait(lock); } while(!pred()).
wait_pred_wait_first(t) ==
    /\ pc[t] = "pred"
    /\ lastPred' = [lastPred EXCEPT ![t] = pred_value]
    /\ IF pred /\ primCalled[t]
       THEN /\ pc' = [pc EXCEPT ![t] = "ret"]
            /\ result' = [result EXCEPT ![t] =
                             IF op[t] = "wait_pred" THEN "returned" ELSE "true"]
       ELSE /\ pc' = [pc EXCEPT ![t] =
                         IF op[t] = "wait_pred" THEN "w_check" ELSE "u_mtx"]
            /\ UNCHANGED result
    /\ UNCHANGED <<callVars, ts, ec, status, primCalled, clockRead, cause,
                   predEarly, owner, waiters, flag, envVars, wpc, lifeVars>>

\* The loop of line 53 written as if(!pred()) wait(lock): a wakeup ends the call.
wait_pred_exit_always(t) ==
    /\ pc[t] = "pred"
    /\ lastPred' = [lastPred EXCEPT ![t] = pred_value]
    /\ IF pred \/ primCalled[t]
       THEN /\ pc' = [pc EXCEPT ![t] = "ret"]
            /\ result' = [result EXCEPT ![t] =
                             IF op[t] = "wait_pred" THEN "returned" ELSE "true"]
       ELSE /\ pc' = [pc EXCEPT ![t] =
                         IF op[t] = "wait_pred" THEN "w_check" ELSE "u_mtx"]
            /\ UNCHANGED result
    /\ UNCHANGED <<callVars, ts, ec, status, primCalled, clockRead, cause,
                   predEarly, owner, waiters, flag, envVars, wpc, lifeVars>>

\* The loop test of the timed predicate forms giving the deadline precedence:
\* a predicate found true after a wait, the deadline reached, yields false.
pred_test_deadline_first(t) ==
    /\ pc[t] = "pred"
    /\ lastPred' = [lastPred EXCEPT ![t] = pred_value]
    /\ IF pred
       THEN /\ pc' = [pc EXCEPT ![t] = "ret"]
            /\ result' = [result EXCEPT ![t] =
                             IF op[t] = "wait_pred" THEN "returned"
                             ELSE IF primCalled[t] /\ ~TsBefore(now, ts[t])
                             THEN "false" ELSE "true"]
       ELSE /\ pc' = [pc EXCEPT ![t] =
                         IF op[t] = "wait_pred" THEN "w_check" ELSE "u_mtx"]
            /\ UNCHANGED result
    /\ UNCHANGED <<callVars, ts, ec, status, primCalled, clockRead, cause,
                   predEarly, owner, waiters, flag, envVars, wpc, lifeVars>>

\* The predicate forms testing lock.owns_lock() before pred(): a lock that is
\* not held raises operation_not_permitted whatever the predicate.
pred_test_checks_lock(t) ==
    /\ pc[t] = "pred"
    /\ lastPred' = [lastPred EXCEPT ![t] = pred_value]
    /\ IF lk[t] # "held"
       THEN /\ pc' = [pc EXCEPT ![t] = "thrown"]
            /\ result' = [result EXCEPT ![t] = "PreconditionError"]
       ELSE IF pred
       THEN /\ pc' = [pc EXCEPT ![t] = "ret"]
            /\ result' = [result EXCEPT ![t] =
                             IF op[t] = "wait_pred" THEN "returned" ELSE "true"]
       ELSE /\ pc' = [pc EXCEPT ![t] =
                         IF op[t] = "wait_pred" THEN "w_check" ELSE "u_mtx"]
            /\ UNCHANGED result
    /\ UNCHANGED <<callVars, ts, ec, status, primCalled, clockRead, cause,
                   predEarly, owner, waiters, flag, envVars, wpc, lifeVars>>

\* The loop test while(!pred()) of the predicate forms: a true predicate ends
\* the call (line 55; lines 73 and 93 with true), a false one calls the
\* underlying wait form.
PredTest(t) ==
    /\ pc[t] = "pred"
    /\ lastPred' = [lastPred EXCEPT ![t] = pred_value]
    /\ IF pred
       THEN /\ pc' = [pc EXCEPT ![t] = "ret"]
            /\ result' = [result EXCEPT ![t] =
                             IF op[t] = "wait_pred" THEN "returned" ELSE "true"]
       ELSE /\ pc' = [pc EXCEPT ![t] =
                         IF op[t] = "wait_pred" THEN "w_check" ELSE "u_mtx"]
            /\ UNCHANGED result
    /\ UNCHANGED <<callVars, ts, ec, status, primCalled, clockRead, cause,
                   predEarly, owner, waiters, flag, envVars, wpc, lifeVars>>

\* Lines 72 and 92 written as return false.
pred_final_false(t) ==
    /\ pc[t] = "final"
    /\ lastPred' = [lastPred EXCEPT ![t] = pred_value]
    /\ result' = [result EXCEPT ![t] = "false"]
    /\ pc' = [pc EXCEPT ![t] = "ret"]
    /\ UNCHANGED <<callVars, ts, ec, status, primCalled, clockRead, cause,
                   predEarly, owner, waiters, flag, envVars, wpc, lifeVars>>

\* Lines 72 and 92: return pred() after a timeout.
PredFinal(t) ==
    /\ pc[t] = "final"
    /\ lastPred' = [lastPred EXCEPT ![t] = pred_value]
    /\ result' = [result EXCEPT ![t] = IF pred THEN "true" ELSE "false"]
    /\ pc' = [pc EXCEPT ![t] = "ret"]
    /\ UNCHANGED <<callVars, ts, ec, status, primCalled, clockRead, cause,
                   predEarly, owner, waiters, flag, envVars, wpc, lifeVars>>

\* ------------------------------------------------------ wait(lock), lines 41-50

\* Lines 42-45: the ownership check; a lock that does not own the mutex
\* raises operation_not_permitted.
WaitCheck(t) ==
    /\ pc[t] = "w_check"
    /\ IF lk[t] # "held"
       THEN /\ pc' = [pc EXCEPT ![t] = "thrown"]
            /\ result' = [result EXCEPT ![t] = "PreconditionError"]
       ELSE /\ pc' = [pc EXCEPT ![t] = "w_block"]
            /\ UNCHANGED result
    /\ UNCHANGED <<callVars, ts, ec, status, ghostVars, owner, waiters, flag,
                   envVars, wpc, lifeVars>>

\* A wait that blocks without releasing the mutex.
BlockKeepingMutex(t) ==
    /\ waiters' = waiters \cup {t}
    /\ owner' = owner

\* pthread_cond_wait and pthread_cond_timedwait: the caller joins the threads
\* blocked on cv_ and the mutex is released, in one atomic step.
BlockOn(t) ==
    /\ waiters' = waiters \cup {t}
    /\ owner' = NoThread


\* Lines 46-47: pthread_cond_wait(&cv_, mtx) blocks.
WaitBlock(t) ==
    /\ pc[t] = "w_block"
    /\ BlockOn(t)
    /\ primCalled' = [primCalled EXCEPT ![t] = TRUE]
    /\ pc' = [pc EXCEPT ![t] = "blocked"]
    /\ UNCHANGED <<callVars, ts, ec, status, result, clockRead, lastPred, cause,
                   predEarly, flag, envVars, wpc, lifeVars>>

\* Line 47: pthread_cond_wait fails with a native error code, the mutex kept.
WaitFail(t) ==
    /\ pc[t] = "w_block"
    /\ \E e \in NativeErrors : ec' = [ec EXCEPT ![t] = e]
    /\ primCalled' = [primCalled EXCEPT ![t] = TRUE]
    /\ pc' = [pc EXCEPT ![t] = "w_ret"]
    /\ UNCHANGED <<callVars, ts, status, result, clockRead, lastPred, cause,
                   predEarly, owner, waiters, flag, envVars, wpc, lifeVars>>

\* Lines 48-50 (and the loop of line 53): a non-zero code raises std::system_error
\* with that code; otherwise wait(lock) returns, to its caller or to the loop.
WaitReturn(t) ==
    /\ pc[t] = "w_ret"
    /\ IF ec[t] # 0
       THEN /\ pc' = [pc EXCEPT ![t] = "thrown"]
            /\ result' = [result EXCEPT ![t] = "OperationError"]
       ELSE IF op[t] = "wait"
       THEN /\ pc' = [pc EXCEPT ![t] = "ret"]
            /\ result' = [result EXCEPT ![t] = "returned"]
       ELSE /\ pc' = [pc EXCEPT ![t] = "pred"]
            /\ UNCHANGED result
    /\ UNCHANGED <<callVars, ts, ec, status, ghostVars, owner, waiters, flag,
                   envVars, wpc, lifeVars>>

\* ------------------------------------------------- wait_until_, lines 120-136

\* Line 122: lock.mutex()->native_handle(). With a lock associated with no
\* mutex this calls a member function through a null pointer: undefined
\* behaviour, which either yields a null handle and goes on or faults. A fault
\* ends the process, the writer thread with it.
UntilMutex(t) ==
    /\ pc[t] = "u_mtx"
    /\ \/ /\ pc' = [pc EXCEPT ![t] = "u_check"]
          /\ UNCHANGED <<result, wpc>>
       \/ /\ lk[t] = "nomutex"
          /\ pc' = [pc EXCEPT ![t] = "crashed"]
          /\ result' = [result EXCEPT ![t] = "UB"]
          /\ wpc' = "dead"
    /\ UNCHANGED <<callVars, ts, ec, status, ghostVars, owner, waiters, flag,
                   envVars, lifeVars>>

\* Lines 123-126: the ownership check.
UntilCheck(t) ==
    /\ pc[t] = "u_check"
    /\ IF lk[t] # "held"
       THEN /\ pc' = [pc EXCEPT ![t] = "thrown"]
            /\ result' = [result EXCEPT ![t] = "PreconditionError"]
       ELSE /\ pc' = [pc EXCEPT ![t] = "u_block"]
            /\ UNCHANGED result
    /\ UNCHANGED <<callVars, ts, ec, status, ghostVars, owner, waiters, flag,
                   envVars, wpc, lifeVars>>

\* Line 127: pthread_cond_timedwait(&cv_, mtx, &ts) blocks.
UntilBlock(t) ==
    /\ pc[t] = "u_block"
    /\ ValidTs(ts[t])
    /\ BlockOn(t)
    /\ primCalled' = [primCalled EXCEPT ![t] = TRUE]
    /\ pc' = [pc EXCEPT ![t] = "blocked"]
    /\ UNCHANGED <<callVars, ts, ec, status, result, clockRead, lastPred, cause,
                   predEarly, flag, envVars, wpc, lifeVars>>

\* Line 127: pthread_cond_timedwait fails with a native error code (EINVAL
\* for a deadline whose nanosecond field is out of range), the mutex kept.
UntilFail(t) ==
    /\ pc[t] = "u_block"
    /\ \E e \in NativeErrors :
          /\ ~ValidTs(ts[t]) => e = EINVAL
          /\ ec' = [ec EXCEPT ![t] = e]
    /\ primCalled' = [primCalled EXCEPT ![t] = TRUE]
    /\ pc' = [pc EXCEPT ![t] = "u_ret"]
    /\ UNCHANGED <<callVars, ts, status, result, clockRead, lastPred, cause,
                   predEarly, owner, waiters, flag, envVars, wpc, lifeVars>>

\* The switch of lines 128-135 with every non-zero code taken for a timeout.
cv_status_any_timeout(e) ==
    CASE e = 0 -> "no_timeout"
      [] OTHER -> "timeout"

\* The switch of lines 128-135: the cv_status for a native code, or "error"
\* for the default branch that throws.
cv_status_of(e) ==
    CASE e = 0 -> "no_timeout"
      [] e = ETIMEDOUT -> "timeout"
      [] OTHER -> "error"

\* Lines 70-73 and 90-93 trusting a wakeup: a status of no_timeout ends the
\* predicate forms with true, pred() not evaluated again.
until_return_trusts_wakeup(t) ==
    /\ pc[t] = "u_ret"
    /\ LET st == cv_status_of(ec[t]) IN
       /\ status' = [status EXCEPT ![t] = st]
       /\ IF st = "error"
          THEN /\ pc' = [pc EXCEPT ![t] = "thrown"]
               /\ result' = [result EXCEPT ![t] = "OperationError"]
          ELSE IF op[t] \in PredOps /\ st = "timeout"
          THEN /\ pc' = [pc EXCEPT ![t] = "final"]
               /\ UNCHANGED result
          ELSE /\ pc' = [pc EXCEPT ![t] = "ret"]
               /\ result' = [result EXCEPT ![t] =
                                IF op[t] \in PredOps THEN "true" ELSE st]
    /\ UNCHANGED <<callVars, ts, ec, ghostVars, owner, waiters, flag, envVars, wpc,
                   lifeVars>>

\* Lines 69 and 89 moved into the loop: after a wakeup without timeout the
\* predicate forms compute the deadline again.
until_return_recomputes(t) ==
    /\ pc[t] = "u_ret"
    /\ LET st == cv_status_of(ec[t]) IN
       /\ status' = [status EXCEPT ![t] = st]
       /\ IF st = "error"
          THEN /\ pc' = [pc EXCEPT ![t] = "thrown"]
               /\ result' = [result EXCEPT ![t] = "OperationError"]
          ELSE IF op[t] \in PredOps
          THEN /\ pc' = [pc EXCEPT ![t] = IF st = "timeout" THEN "final" ELSE "abs"]
               /\ UNCHANGED result
          ELSE /\ pc' = [pc EXCEPT ![t] = "ret"]
               /\ result' = [result EXCEPT ![t] = st]
    /\ UNCHANGED <<callVars, ts, ec, ghostVars, owner, waiters, flag, envVars, wpc,
                   lifeVars>>

\* Lines 128-135, with the use each caller makes of the status (lines 62, 71,
\* 81, 91): the plain forms return it; the predicate forms evaluate pred()
\* again, as the final result after a timeout and as the loop test otherwise.
UntilReturn(t) ==
    /\ pc[t] = "u_ret"
    /\ LET st == cv_status_of(ec[t]) IN
       /\ status' = [status EXCEPT ![t] = st]
       /\ IF st = "error"
          THEN /\ pc' = [pc EXCEPT ![t] = "thrown"]
               /\ result' = [result EXCEPT ![t] = "OperationError"]
          ELSE IF op[t] \in PredOps
          THEN /\ pc' = [pc EXCEPT ![t] = IF st = "timeout" THEN "final" ELSE "pred"]
               /\ UNCHANGED result
          ELSE /\ pc' = [pc EXCEPT ![t] = "ret"]
               /\ result' = [result EXCEPT ![t] = st]
    /\ UNCHANGED <<callVars, ts, ec, ghostVars, owner, waiters, flag, envVars, wpc,
                   lifeVars>>

\* ------------------------------------------ inside the underlying wait

\* Thread t leaves the blocked state with native code e, for reason c.
Wake(t, e, c) ==
    /\ ec' = [ec EXCEPT ![t] = e]
    /\ cause' = [cause EXCEPT ![t] = c]
    /\ pc' = [pc EXCEPT ![t] = "woken"]

\* A spurious wakeup: the underlying wait ends without any notify.
SpuriousWakeup(t) ==
    /\ t \in waiters
    /\ waiters' = waiters \ {t}
    /\ Wake(t, 0, "spurious")
    /\ UNCHANGED <<callVars, ts, status, result, primCalled, clockRead, lastPred,
                   predEarly, owner, flag, envVars, wpc, lifeVars>>

\* pthread_cond_timedwait finds the deadline reached on CLOCK_MONOTONIC, the
\* clock cv_ was initialised with (lines 14-16).
Timeout(t) ==
    /\ t \in waiters
    /\ op[t] \in TimedOps
    /\ Elapsed(ts[t])
    /\ waiters' = waiters \ {t}
    /\ Wake(t, ETIMEDOUT, "timeout")
    /\ UNCHANGED <<callVars, ts, status, result, primCalled, clockRead, lastPred,
                   predEarly, owner, flag, envVars, wpc, lifeVars>>

\* An underlying wait that returns without the mutex.
ReturnUnlocked(t) ==
    /\ pc[t] = "woken"
    /\ pc' = [pc EXCEPT ![t] = IF op[t] \in TimedOps THEN "u_ret" ELSE "w_ret"]
    /\ UNCHANGED <<callVars, ts, ec, status, result, ghostVars, owner, waiters,
                   flag, envVars, wpc, lifeVars>>

\* The underlying wait reacquires the mutex before it returns.
Reacquire(t) ==
    /\ pc[t] = "woken"
    /\ owner = NoThread
    /\ owner' = t
    /\ pc' = [pc EXCEPT ![t] = IF op[t] \in TimedOps THEN "u_ret" ELSE "w_ret"]
    /\ UNCHANGED <<callVars, ts, ec, status, result, ghostVars, waiters, flag,
                   envVars, wpc, lifeVars>>

\* ---------------------------------------------------- after the call

\* The caller is done with the call: its unique_lock, if it owns the mutex,
\* unlocks it (explicitly, or in its destructor when an exception unwinds).
Finish(t) ==
    /\ pc[t] \in {"ret", "thrown"}
    /\ owner' = IF owner = t THEN NoThread ELSE owner
    /\ pc' = [pc EXCEPT ![t] = "idle"]
    /\ op' = [op EXCEPT ![t] = "none"]
    /\ lk' = [lk EXCEPT ![t] = "unheld"]
    /\ rel_time' = [rel_time EXCEPT ![t] = 0]
    /\ abs_time' = [abs_time EXCEPT ![t] = 0]
    /\ ts' = [ts EXCEPT ![t] = ZeroTs]
    /\ ec' = [ec EXCEPT ![t] = 0]
    /\ status' = [status EXCEPT ![t] = "none"]
    /\ result' = [result EXCEPT ![t] = "none"]
    /\ primCalled' = [primCalled EXCEPT ![t] = FALSE]
    /\ clockRead' = [clockRead EXCEPT ![t] = FALSE]
    /\ lastPred' = [lastPred EXCEPT ![t] = "none"]
    /\ cause' = [cause EXCEPT ![t] = "none"]
    /\ predEarly' = [predEarly EXCEPT ![t] = FALSE]
    /\ UNCHANGED <<waiters, flag, envVars, wpc, lifeVars>>

\* ------------------------------------------------------- the writer thread

waiterVars == <<callVars, ts, ec, status, result, ghostVars>>

\* The writer locks the mutex.
WLock ==
    /\ wpc = "idle"
    /\ owner = NoThread
    /\ owner' = Writer
    /\ wpc' = "locked"
    /\ UNCHANGED <<pc, waiterVars, waiters, flag, envVars, lifeVars>>

\* The calls of the timed predicate forms whose deadline is computed.
DeadlineSet(t) ==
    /\ op[t] \in TimedOps \cap PredOps
    /\ pc[t] \notin {"idle", "rel", "abs", "ret", "thrown", "crashed"}

\* The flag is written: it holds before the deadline of every timed
\* predicate call whose deadline is not reached yet.
WriteFlag(v) ==
    /\ flag' = v
    /\ predEarly' = [t \in Waiters |->
                        predEarly[t] \/ (v /\ DeadlineSet(t) /\ TsBefore(now, ts[t]))]

\* The writer, holding the mutex, changes the flag to v.
SetFlag(v) ==
    /\ wpc = "locked"
    /\ flag # v
    /\ WriteFlag(v)
    /\ UNCHANGED <<pc, callVars, ts, ec, status, result, primCalled, clockRead,
                   lastPred, cause, owner, waiters, envVars, wpc, lifeVars>>

\* The writer unlocks the mutex.
WUnlock ==
    /\ wpc = "locked"
    /\ owner' = NoThread
    /\ wpc' = "idle"
    /\ UNCHANGED <<pc, waiterVars, waiters, flag, envVars, lifeVars>>

\* notify_one calling pthread_cond_broadcast: every blocked thread is woken.
cond_signal_wakes_all ==
    /\ waiters' = {}
    /\ ec' = [t \in Waiters |-> IF t \in waiters THEN 0 ELSE ec[t]]
    /\ cause' = [t \in Waiters |-> IF t \in waiters THEN "notify" ELSE cause[t]]
    /\ pc' = [t \in Waiters |-> IF t \in waiters THEN "woken" ELSE pc[t]]

\* pthread_cond_signal: one of the threads blocked on cv_, if any, is woken.
cond_signal ==
    IF waiters = {}
    THEN UNCHANGED <<pc, ec, cause, waiters>>
    ELSE \E t \in waiters :
            /\ waiters' = waiters \ {t}
            /\ Wake(t, 0, "notify")

\* notify_all calling pthread_cond_signal: one blocked thread, if any, is woken.
cond_broadcast_wakes_one ==
    IF waiters = {}
    THEN UNCHANGED <<pc, ec, cause, waiters>>
    ELSE \E t \in waiters :
            /\ waiters' = waiters \ {t}
            /\ Wake(t, 0, "notify")

\* pthread_cond_broadcast: every thread blocked on cv_ is woken.
cond_broadcast ==
    /\ waiters' = {}
    /\ ec' = [t \in Waiters |-> IF t \in waiters THEN 0 ELSE ec[t]]
    /\ cause' = [t \in Waiters |-> IF t \in waiters THEN "notify" ELSE cause[t]]
    /\ pc' = [t \in Waiters |-> IF t \in waiters THEN "woken" ELSE pc[t]]

\* notify_one (lines 31-35), called by the writer with or without the mutex.
notify_one ==
    /\ wpc \in {"idle", "locked"}
    /\ cond_signal
    /\ UNCHANGED <<callVars, ts, status, result, primCalled, clockRead, lastPred,
                   predEarly, owner, flag, envVars, wpc, lifeVars>>

\* notify_all (lines 36-40).
notify_all ==
    /\ wpc \in {"idle", "locked"}
    /\ cond_broadcast
    /\ UNCHANGED <<callVars, ts, status, result, primCalled, clockRead, lastPred,
                   predEarly, owner, flag, envVars, wpc, lifeVars>>

\* ------------------------------------------------------------- the clocks

\* The clock reading c advanced by TickNanos.
Advance(c) ==
    LET n == c.tv_nsec + TickNanos
    IN  [tv_sec |-> c.tv_sec + n \div NanoDen, tv_nsec |-> n % NanoDen]

\* CLOCK_MONOTONIC moves forward.
Tick ==
    /\ Advance(now).tv_sec <= MaxSec
    /\ now' = Advance(now)
    /\ UNCHANGED <<pc, waiterVars, owner, waiters, flag, wall, wpc, lifeVars>>

\* The caller's clock is set forward or backward.
WallJump ==
    /\ \E w \in WallTimes : w # wall /\ wall' = w
    /\ UNCHANGED <<pc, waiterVars, owner, waiters, flag, now, wpc, lifeVars>>

\* ------------------------------- construction and destruction, lines 10-26

\* Everything but the constructions.
useVars == <<pc, waiterVars, owner, waiters, flag, envVars, wpc>>

\* Lines 10-11: the constructor is entered, cvattr not initialised yet.
Construct(o) ==
    /\ ctor[o].pc = "none"
    /\ ctor' = [ctor EXCEPT ![o] = [NoObject EXCEPT !.pc = "attr_init"]]
    /\ UNCHANGED <<liveAttrs, liveConds, useVars>>

\* Lines 12-13: pthread_condattr_init(&cvattr). A fresh attribute object
\* selects the default clock, CLOCK_REALTIME. A failure leaves cvattr
\* uninitialised and skips the block of lines 14-17.
AttrInit(o) ==
    /\ ctor[o].pc = "attr_init"
    /\ \/ /\ ctor' = [ctor EXCEPT ![o].ec = 0, ![o].cvattr = "realtime",
                                   ![o].pc = "setclock"]
          /\ liveAttrs' = liveAttrs + 1
       \/ /\ \E e \in NativeErrors :
                ctor' = [ctor EXCEPT ![o].ec = e, ![o].failedAt = "attr_init",
                                     ![o].pc = "throw_check"]
          /\ UNCHANGED liveAttrs
    /\ UNCHANGED <<liveConds, useVars>>

\* The constructor with line 17 moved into the if of line 15: a failure of
\* pthread_condattr_setclock goes straight to line 19.
setclock_fail_skips_destroy(o) ==
    /\ ctor[o].pc = "setclock"
    /\ \/ ctor' = [ctor EXCEPT ![o].ec = 0, ![o].cvattr = "monotonic",
                                ![o].pc = "cond_init"]
       \/ \E e \in NativeErrors :
             ctor' = [ctor EXCEPT ![o].ec = e, ![o].failedAt = "setclock",
                                  ![o].pc = "throw_check"]
    /\ UNCHANGED <<liveAttrs, liveConds, useVars>>

\* Lines 14-15: pthread_condattr_setclock(&cvattr, CLOCK_MONOTONIC). A
\* failure skips pthread_cond_init and goes on to line 17.
SetClock(o) ==
    /\ ctor[o].pc = "setclock"
    /\ \/ ctor' = [ctor EXCEPT ![o].ec = 0, ![o].cvattr = "monotonic",
                                ![o].pc = "cond_init"]
       \/ \E e \in NativeErrors :
             ctor' = [ctor EXCEPT ![o].ec = e, ![o].failedAt = "setclock",
                                  ![o].pc = "attr_destroy"]
    /\ UNCHANGED <<liveAttrs, liveConds, useVars>>

\* Line 16: pthread_cond_init(&cv_, &cvattr); cv_ takes the clock of cvattr.
CondInit(o) ==
    /\ ctor[o].pc = "cond_init"
    /\ \/ /\ ctor' = [ctor EXCEPT ![o].ec = 0, ![o].cv_ = ctor[o].cvattr,
                                   ![o].pc = "attr_destroy"]
          /\ liveConds' = liveConds + 1
       \/ /\ \E e \in NativeErrors :
                ctor' = [ctor EXCEPT ![o].ec = e, ![o].failedAt = "cond_init",
                                     ![o].pc = "attr_destroy"]
          /\ UNCHANGED liveConds
    /\ UNCHANGED <<liveAttrs, useVars>>

\* Line 17: pthread_condattr_destroy(&cvattr), its result ignored.
AttrDestroy(o) ==
    /\ ctor[o].pc = "attr_destroy"
    /\ ctor' = [ctor EXCEPT ![o].cvattr = "destroyed",
                            ![o].destroys = ctor[o].destroys + 1,
                            ![o].pc = "throw_check"]
    /\ liveAttrs' = liveAttrs - 1
    /\ UNCHANGED <<liveConds, useVars>>

\* Lines 19-21: a non-zero ec raises std::system_error and no object exists;
\* otherwise the constructor returns and the object is live.
ThrowCheck(o) ==
    /\ ctor[o].pc = "throw_check"
    /\ ctor' = [ctor EXCEPT ![o].pc = IF ctor[o].ec # 0 THEN "failed" ELSE "live"]
    /\ UNCHANGED <<liveAttrs, liveConds, useVars>>

\* Lines 24-26: the destructor of a live object, pthread_cond_destroy(&cv_).
Destructor(o) ==
    /\ ctor[o].pc = "live"
    /\ ctor' = [ctor EXCEPT ![o] = NoObject]
    /\ liveConds' = liveConds - 1
    /\ UNCHANGED <<liveAttrs, useVars>>

\* The exception of line 20 leaves the constructor: the storage is given up
\* and the destructor does not run.
Unwind(o) ==
    /\ ctor[o].pc = "failed"
    /\ ctor' = [ctor EXCEPT ![o] = NoObject]
    /\ UNCHANGED <<liveAttrs, liveConds, useVars>>

\* Objects are constructed and destroyed again and again, each step of
\* construction succeeding or failing.
NextLife ==
    \E o \in Objects :
        \/ Construct(o)
        \/ AttrInit(o)
        \/ SetClock(o)
        \/ CondInit(o)
        \/ AttrDestroy(o)
        \/ ThrowCheck(o)
        \/ Destructor(o)
        \/ Unwind(o)

SpecLife == Init /\ [][NextLife]_vars

\* ------------------------------------------------------ the specification

\* The steps of a call once it is entered.
CallStep(t) ==
    \/ UntilRel(t)
    \/ ToAbsTime(t)
    \/ PredTest(t)
    \/ PredFinal(t)
    \/ WaitCheck(t)
    \/ WaitBlock(t)
    \/ WaitFail(t)
    \/ WaitReturn(t)
    \/ UntilMutex(t)
    \/ UntilCheck(t)
    \/ UntilBlock(t)
    \/ UntilFail(t)
    \/ UntilReturn(t)
    \/ SpuriousWakeup(t)
    \/ Timeout(t)
    \/ Reacquire(t)
    \/ Finish(t)

WriterStep ==
    \/ WLock
    \/ \E v \in BOOLEAN : SetFlag(v)
    \/ WUnlock
    \/ notify_one
    \/ notify_all

\* One caller, T1, calling any wait variant with its lock in any state, the
\* writer, and both clocks.
Next ==
    \/ Begin("T1")
    \/ CallStep("T1")
    \/ WriterStep
    \/ Tick
    \/ WallJump

Spec == Init /\ [][Next]_vars

\* Every caller calling any wait variant with its lock held, and the writer.
\* The monotonic clock stands still: a deadline is either reached from the
\* start (d <= 0) or not reached during the run (d > 0).
NextMT ==
    \/ \E t \in Waiters : BeginHeld(t) \/ CallStep(t)
    \/ WriterStep

SpecMT == Init /\ [][NextMT]_vars

\* ----------------------------------------- the deadline computation alone

\* The largest whole second of the clock readings to_abs_time_ is applied to.
MaxAbsSec == 2

\* A call of wait_for about to compute its deadline, for every duration of
\* AbsRelTimes and every reading of the monotonic clock.
InitAbs ==
    /\ pc = [t \in Waiters |-> IF t = "T1" THEN "abs" ELSE "idle"]
    /\ op = [t \in Waiters |-> IF t = "T1" THEN "wait_for" ELSE "none"]
    /\ lk = [t \in Waiters |-> IF t = "T1" THEN "held" ELSE "unheld"]
    /\ rel_time \in {[t \in Waiters |-> IF t = "T1" THEN d ELSE 0] : d \in AbsRelTimes}
    /\ abs_time = [t \in Waiters |-> 0]
    /\ ts = [t \in Waiters |-> ZeroTs]
    /\ ec = [t \in Waiters |-> 0]
    /\ status = [t \in Waiters |-> "none"]
    /\ result = [t \in Waiters |-> "none"]
    /\ primCalled = [t \in Waiters |-> FALSE]
    /\ clockRead = [t \in Waiters |-> FALSE]
    /\ lastPred = [t \in Waiters |-> "none"]
    /\ cause = [t \in Waiters |-> "none"]
    /\ predEarly = [t \in Waiters |-> FALSE]
    /\ owner = "T1"
    /\ waiters = {}
    /\ flag = FALSE
    /\ now \in [tv_sec : 0 .. MaxAbsSec, tv_nsec : AbsNanos]
    /\ wall = 1000000000
    /\ wpc = "idle"
    /\ ctor = [o \in Objects |-> NoObject]
    /\ liveAttrs = 0
    /\ liveConds = 0

NextAbs == ToAbsTime("T1")

SpecAbs == InitAbs /\ [][NextAbs]_vars

\* ------------------------------------------------------ the flag scenario

\* Thread A (T1) calls wait(lock, pred) on a flag that is false; thread B (the
\* writer) locks the mutex, sets the flag, calls notify_one() once and unlocks.
InitFlag ==
    /\ pc = [t \in Waiters |-> "idle"]
    /\ op = [t \in Waiters |-> "none"]
    /\ lk = [t \in Waiters |-> "unheld"]
    /\ rel_time = [t \in Waiters |-> 0]
    /\ abs_time = [t \in Waiters |-> 0]
    /\ ts = [t \in Waiters |-> ZeroTs]
    /\ ec = [t \in Waiters |-> 0]
    /\ status = [t \in Waiters |-> "none"]
    /\ result = [t \in Waiters |-> "none"]
    /\ primCalled = [t \in Waiters |-> FALSE]
    /\ clockRead = [t \in Waiters |-> FALSE]
    /\ lastPred = [t \in Waiters |-> "none"]
    /\ cause = [t \in Waiters |-> "none"]
    /\ predEarly = [t \in Waiters |-> FALSE]
    /\ owner = NoThread
    /\ waiters = {}
    /\ flag = FALSE
    /\ now = [tv_sec |-> 1, tv_nsec |-> 0]
    /\ wall = 1000000000
    /\ wpc = "b_lock"
    /\ ctor = [o \in Objects |-> NoObject]
    /\ liveAttrs = 0
    /\ liveConds = 0

\* A locks the mutex and calls wait(lock, pred).
ABegin == Call("T1", "wait_pred", "held", 0, 0)

\* A's steps inside the call, the underlying wait never failing.
ARun ==
    \/ PredTest("T1")
    \/ WaitCheck("T1")
    \/ WaitBlock("T1")
    \/ WaitReturn("T1")
    \/ Reacquire("T1")

\* B locks the mutex.
BLock ==
    /\ wpc = "b_lock"
    /\ owner = NoThread
    /\ owner' = Writer
    /\ wpc' = "b_set"
    /\ UNCHANGED <<pc, waiterVars, waiters, flag, envVars, lifeVars>>

\* B sets the flag.
BSet ==
    /\ wpc = "b_set"
    /\ WriteFlag(TRUE)
    /\ wpc' = "b_notify"
    /\ UNCHANGED <<pc, callVars, ts, ec, status, result, primCalled, clockRead,
                   lastPred, cause, owner, waiters, envVars, lifeVars>>

\* B calls notify_one(), once.
BNotify ==
    /\ wpc = "b_notify"
    /\ cond_signal
    /\ wpc' = "b_unlock"
    /\ UNCHANGED <<callVars, ts, status, result, primCalled, clockRead, lastPred,
                   predEarly, owner, flag, envVars, lifeVars>>

\* B unlocks the mutex.
BUnlock ==
    /\ wpc = "b_unlock"
    /\ owner' = NoThread
    /\ wpc' = "b_done"
    /\ UNCHANGED <<pc, waiterVars, waiters, flag, envVars, lifeVars>>

NextFlag ==
    \/ ABegin
    \/ ARun
    \/ SpuriousWakeup("T1")
    \/ BLock
    \/ BSet
    \/ BNotify
    \/ BUnlock
    \/ Tick

\* Fair scheduling: each thread that can take a step eventually takes one, and
\* the mutex is fair to B, which A's repeated reacquisitions cannot starve.
\* Spurious wakeups and the clock are under no obligation.
FairFlag ==
    /\ WF_vars(ABegin)
    /\ WF_vars(ARun)
    /\ WF_vars(BSet \/ BNotify \/ BUnlock)
    /\ SF_vars(BLock)

SpecFlag == InitFlag /\ [][NextFlag]_vars /\ FairFlag

\* ------------------------------------------------- the notify_all scenario

\* The steps thread t takes by itself inside a call: everything but the
\* events that end a blocked wait, the failure of the underlying wait and the
\* reacquisition of the mutex, which waits for the mutex to be free.
Run(t) ==
    \/ UntilRel(t)
    \/ ToAbsTime(t)
    \/ PredTest(t)
    \/ PredFinal(t)
    \/ WaitCheck(t)
    \/ WaitBlock(t)
    \/ WaitReturn(t)
    \/ UntilMutex(t)
    \/ UntilCheck(t)
    \/ UntilBlock(t)
    \/ UntilReturn(t)
    \/ Finish(t)

\* Every caller calling any wait variant with its lock held; the writer
\* locks, writes the flag, unlocks and calls notify_all(), never notify_one().
NextAll ==
    \/ \E t \in Waiters : BeginHeld(t) \/ CallStep(t)
    \/ WLock
    \/ \E v \in BOOLEAN : SetFlag(v)
    \/ WUnlock
    \/ notify_all

\* Fair scheduling: a thread inside a call goes on, so a thread that owns
\* the mutex blocks again or returns and unlocks; the writer unlocks; and the
\* mutex is fair to each woken thread. New calls, notifications, spurious
\* wakeups and failures are under no obligation.
FairAll ==
    /\ \A t \in Waiters : WF_vars(Run(t)) /\ SF_vars(Reacquire(t))
    /\ WF_vars(WUnlock)

SpecAll == Init /\ [][NextAll]_vars /\ FairAll

\* ---------------------------------------------------- the timeout scenario

\* The call of thread t has computed its deadline.
HasDeadline(t) ==
    op[t] \in TimedOps /\ pc[t] \notin {"idle", "rel", "abs"}

\* The durations d > 0.
PosRelTimes == {r \in RelTimes : r > 0}

\* CLOCK_MONOTONIC moves forward, up to MaxSec and as far beyond as the
\* deadline of a call in progress lies.
TickUntil ==
    /\ \/ Advance(now).tv_sec <= MaxSec
       \/ \E t \in Waiters : HasDeadline(t) /\ TsBefore(now, ts[t])
    /\ now' = Advance(now)
    /\ UNCHANGED <<pc, waiterVars, owner, waiters, flag, wall, wpc, lifeVars>>

\* T1 locks the mutex and calls wait_for(lock, d) with d > 0.
TBegin ==
    /\ now.tv_sec <= MaxSec
    /\ \E r \in PosRelTimes : Call("T1", "wait_for", "held", r, 0)

\* No notify is ever sent: T1 calls wait_for(lock, d) again and again, the
\* writer locks and unlocks the mutex, the monotonic clock moves forward and
\* the wall clock jumps.
NextTimeout ==
    \/ TBegin
    \/ ToAbsTime("T1")
    \/ UntilMutex("T1")
    \/ UntilCheck("T1")
    \/ UntilBlock("T1")
    \/ UntilFail("T1")
    \/ UntilReturn("T1")
    \/ SpuriousWakeup("T1")
    \/ Timeout("T1")
    \/ Reacquire("T1")
    \/ Finish("T1")
    \/ WLock
    \/ WUnlock
    \/ TickUntil
    \/ WallJump

\* The monotonic clock progresses; a timed wait whose deadline is reached
\* ends; the caller goes on inside its call; the mutex is fair to the woken
\* caller and the writer unlocks. Spurious wakeups, failures and the wall
\* clock are under no obligation.
FairTimeout ==
    /\ WF_vars(TickUntil)
    /\ WF_vars(Timeout("T1"))
    /\ WF_vars(Run("T1"))
    /\ SF_vars(Reacquire("T1"))
    /\ WF_vars(WUnlock)

SpecTimeout == Init /\ [][NextTimeout]_vars /\ FairTimeout

\* ------------------------------------------- the timed predicate loop

\* T1 locks the mutex and calls wait_for(lock, d, pred) or
\* wait_until(lock, t, pred).
LBegin ==
    /\ now.tv_sec <= MaxSec
    /\ \/ \E r \in HeldRelTimes : Call("T1", "wait_for_pred", "held", r, 0)
       \/ \E a \in AbsTimes : Call("T1", "wait_until_pred", "held", 0, a)

\* T1 calls the timed predicate forms again and again while the writer
\* writes the flag and notifies at will, spurious wakeups occur, the
\* monotonic clock moves forward and the caller's clock jumps.
NextLoop ==
    \/ LBegin
    \/ UntilRel("T1")
    \/ ToAbsTime("T1")
    \/ PredTest("T1")
    \/ PredFinal("T1")
    \/ UntilMutex("T1")
    \/ UntilCheck("T1")
    \/ UntilBlock("T1")
    \/ UntilFail("T1")
    \/ UntilReturn("T1")
    \/ SpuriousWakeup("T1")
    \/ Timeout("T1")
    \/ Reacquire("T1")
    \/ Finish("T1")
    \/ WriterStep
    \/ TickUntil
    \/ WallJump

\* The monotonic clock progresses; the caller goes on inside its call; the
\* mutex is fair to the woken caller and the writer unlocks; and of the timed
\* waits entered or pending with the deadline reached, not every one is
\* ended by a wakeup before pthread_cond_timedwait reports the timeout.
\* Notifications, writes of the flag and spurious wakeups are under no
\* obligation.
FairLoop ==
    /\ WF_vars(TickUntil)
    /\ SF_vars(Timeout("T1"))
    /\ WF_vars(Run("T1"))
    /\ SF_vars(Reacquire("T1"))
    /\ WF_vars(WUnlock)

SpecLoop == Init /\ [][NextLoop]_vars /\ FairLoop

\* ================================================================ claims

\* C1: whenever wait(lock, pred) returns, the last evaluation of pred() made
\* by the call yielded true and, the caller holding the mutex that every
\* writer takes, the predicate is still true in the state it returns in.
C1_WaitPredReturnsWithPredTrue ==
    \A t \in Waiters :
        (op[t] = "wait_pred" /\ pc[t] = "ret" /\ lk[t] = "held")
            => (lastPred[t] = "true" /\ pred)

\* C1 witness: a wait(lock, pred) that blocked, was woken by a notify and
\* returned while the other caller is inside a call of its own.
C1_Witness ==
    \E t \in Waiters, u \in Waiters :
        /\ t # u
        /\ op[t] = "wait_pred" /\ pc[t] = "ret"
        /\ primCalled[t] /\ cause[t] = "notify"
        /\ pc[u] = "blocked"

\* C2 as claimed: a wait variant called with a lock that is not held ends
\* with PreconditionError, whatever the predicate and the duration, and never
\* invokes the underlying wait.
C2_UnheldAlwaysPreconditionError ==
    \A t \in Waiters :
        (op[t] \in WaitOps /\ lk[t] # "held")
            => /\ ~primCalled[t]
               /\ pc[t] \in {"ret", "thrown", "crashed"}
                    => result[t] = "PreconditionError"

\* C3 as claimed, for d > 0: wait_for(lock, d, pred), called with the lock
\* held, returns true exactly when the predicate held before the deadline (on
\* entry, or written true while the deadline was not reached).
C3_TrueIffBeforeDeadline ==
    \A t \in Waiters :
        (op[t] = "wait_for_pred" /\ pc[t] = "ret" /\ lk[t] = "held"
            /\ rel_time[t] > 0)
            => (result[t] = "true" <=> predEarly[t])

\* C3 amended: wait_for(lock, d, pred), called with the lock held, returns the
\* value pred() has at its last evaluation, which is the predicate's value in
\* the state it returns in, also when the predicate became true only at or
\* after the deadline; it returns false only after a timed wait reported a
\* timeout.
C3_ReturnsPredAtFinalCheck ==
    \A t \in Waiters :
        (op[t] = "wait_for_pred" /\ pc[t] = "ret" /\ lk[t] = "held")
            => /\ result[t] = "true" <=> pred
               /\ lastPred[t] = "true" <=> pred
               /\ result[t] = "false" => status[t] = "timeout"

\* C3 witness: a wait_for(lock, d, pred) with d > 0 that timed out with the
\* predicate false and returns true, the flag having been set at or after the
\* deadline, before the final evaluation.
C3_Witness ==
    \E t \in Waiters :
        /\ op[t] = "wait_for_pred" /\ pc[t] = "ret" /\ lk[t] = "held"
        /\ rel_time[t] > 0
        /\ status[t] = "timeout"
        /\ ~predEarly[t]
        /\ result[t] = "true"

\* C4: in the flag scenario A eventually returns from wait(lock, pred) having
\* seen the predicate true, after B's single notify_one().
C4_NoLostWakeup ==
    <>(pc["T1"] = "ret" /\ result["T1"] = "returned" /\ lastPred["T1"] = "true")

\* C4 witness: A blocked with the flag false, left the blocked state by a
\* spurious wakeup and returned, B having finished its single notify.
C4_Witness ==
    /\ pc["T1"] = "ret"
    /\ primCalled["T1"]
    /\ cause["T1"] = "spurious"
    /\ wpc = "b_done"

\* C5: for d <= 0, wait_for(lock, d) with the lock held computes the zero
\* timespec without reading the clock; while it is blocked its deadline is
\* reached, so the timed wait can end without any notify; and when no notify
\* and no spurious wakeup ended the wait it returns timeout.
C5_NonPositiveDurationTimesOut ==
    \A t \in Waiters :
        (op[t] = "wait_for" /\ lk[t] = "held" /\ rel_time[t] <= 0 /\ HasDeadline(t))
            => /\ ts[t] = ZeroTs
               /\ ~clockRead[t]
               /\ pc[t] = "blocked" => Elapsed(ts[t])
               /\ (pc[t] = "ret" /\ cause[t] \notin {"notify", "spurious"})
                    => result[t] = "timeout"

\* C5 witness: wait_for(lock, d) with d < 0 returned timeout.
C5_Witness ==
    \E t \in Waiters :
        /\ op[t] = "wait_for" /\ lk[t] = "held" /\ rel_time[t] < 0
        /\ pc[t] = "ret" /\ result[t] = "timeout" /\ cause[t] = "timeout"

\* C6: for d > 0 the deadline's nanosecond field is in [0, 1000000000).
C6_NanosecondsInRange ==
    \A t \in Waiters :
        (HasDeadline(t) /\ rel_time[t] > 0)
            => (ts[t].tv_nsec >= 0 /\ ts[t].tv_nsec < NanoDen)

\* C6 witness: the clock's nanosecond field and the fractional part of d both
\* just under one second, the sum carried once.
C6_Witness ==
    \E t \in Waiters :
        /\ HasDeadline(t)
        /\ rel_time[t] = 1999999999
        /\ now.tv_nsec = 999999999
        /\ ts[t] = [tv_sec |-> now.tv_sec + 2, tv_nsec |-> 999999998]

\* C7: for d > 0 the deadline is the clock reading plus d: with whole the
\* whole seconds of d and frac its remaining nanoseconds, the deadline's
\* seconds exceed the clock's by whole or whole + 1, and
\* (deadline.seconds - clock.seconds - whole) * 1e9 + deadline.nanoseconds
\* equals clock.nanoseconds + frac.
C7_DeadlineIsNowPlusDuration ==
    \A t \in Waiters :
        (HasDeadline(t) /\ rel_time[t] > 0)
            => LET whole == rel_time[t] \div NanoDen
                   frac == rel_time[t] % NanoDen
                   carry == ts[t].tv_sec - now.tv_sec - whole
               IN  /\ carry \in {0, 1}
                   /\ carry = 1 <=> now.tv_nsec + frac >= NanoDen
                   /\ carry * NanoDen + ts[t].tv_nsec = now.tv_nsec + frac

\* C7 witness: a deadline whose nanosecond sum reached one second exactly.
C7_Witness ==
    \E t \in Waiters :
        /\ HasDeadline(t)
        /\ rel_time[t] = 1000000001
        /\ now.tv_nsec = 999999999
        /\ ts[t] = [tv_sec |-> now.tv_sec + 2, tv_nsec |-> 0]

\* The underlying timed wait of thread t's call has returned and wait_until_
\* has mapped its code.
Mapped(t) ==
    /\ op[t] \in TimedOps
    /\ primCalled[t]
    /\ pc[t] \in {"pred", "final", "ret", "thrown"}

\* C8: wait_until_ gives no_timeout exactly for native code 0, timeout exactly
\* for ETIMEDOUT, and raises OperationError exactly for every other code (the
\* code staying in ec); the plain timed forms return that status.
C8_OutcomeMapping ==
    \A t \in Waiters :
        Mapped(t)
            => /\ status[t] = "no_timeout" <=> ec[t] = 0
               /\ status[t] = "timeout" <=> ec[t] = ETIMEDOUT
               /\ (pc[t] = "thrown" /\ result[t] = "OperationError")
                    <=> ec[t] \notin {0, ETIMEDOUT}
               /\ (op[t] \notin PredOps /\ pc[t] = "ret")
                    => result[t] = status[t] /\ result[t] \in {"no_timeout", "timeout"}

\* C8 witness: a timed wait whose underlying wait returned EINVAL raised
\* OperationError.
C8_Witness ==
    \E t \in Waiters :
        /\ Mapped(t)
        /\ ec[t] = EINVAL
        /\ pc[t] = "thrown" /\ result[t] = "OperationError"

\* C9: a wait variant called with the lock held has the mutex owned by the
\* caller whenever the underlying wait has returned and whenever the call
\* has returned normally.
C9_ReturnsWithLockHeld ==
    \A t \in Waiters :
        (lk[t] = "held" /\ pc[t] \in {"w_ret", "u_ret", "final", "ret"})
            => owner = t

\* C9 witness: a timed wait that blocked, timed out and returned timeout.
C9_Witness ==
    \E t \in Waiters :
        /\ op[t] \in {"wait_for", "wait_until"} /\ lk[t] = "held"
        /\ pc[t] = "ret" /\ primCalled[t] /\ result[t] = "timeout"
        /\ owner = t

\* C10: a thread blocked on the condition object does not own the mutex.
C10_NeverBlockedHoldingLock ==
    \A t \in Waiters :
        (pc[t] = "blocked" \/ t \in waiters)
            => (t \in waiters /\ pc[t] = "blocked" /\ owner # t)

\* C10 witness: both callers blocked while the writer owns the mutex.
C10_Witness ==
    /\ waiters = Waiters
    /\ owner = Writer

\* The threads that leave the blocked state by a notification in this step.
Notified ==
    {t \in Waiters : pc[t] = "blocked" /\ pc'[t] = "woken" /\ cause'[t] = "notify"}

\* C11: a notify_one() step makes at most one blocked thread leave the
\* blocked state, whatever the number of threads blocked; with no thread
\* blocked it changes nothing at all, so nothing of it is left for a later
\* wait; and a thread leaves the blocked state by notification only in a
\* notify step taken while it is blocked.
C11_NotifyOneWakesAtMostOne ==
    [][/\ notify_one
          => /\ Cardinality(Notified) <= 1
             /\ Cardinality(waiters \ waiters') <= 1
             /\ \A t \in Waiters : pc[t] = "blocked" /\ t \notin Notified
                                       => pc'[t] = "blocked" /\ t \in waiters'
             /\ waiters = {} => vars' = vars
       /\ \A t \in Notified : t \in waiters /\ (notify_one \/ notify_all)]_vars

\* C11 witness: two threads blocked in wait(lock), one of them woken by a
\* notification while the other is still blocked.
C11_Witness ==
    \E t \in Waiters, u \in Waiters :
        /\ t # u
        /\ op[t] = "wait" /\ op[u] = "wait"
        /\ pc[t] = "woken" /\ cause[t] = "notify"
        /\ pc[u] = "blocked" /\ u \in waiters

\* C12: a notify_all() step takes every thread blocked on cv_ out of the
\* blocked state, and each thread so woken eventually has reacquired the
\* mutex and returned from its underlying wait, owning the mutex.
C12_NotifyAllWakesAll ==
    /\ [][notify_all => /\ waiters' = {}
                        /\ \A t \in waiters : pc'[t] = "woken" /\ cause'[t] = "notify"]_vars
    /\ \A t \in Waiters :
          (pc[t] = "woken" /\ cause[t] = "notify")
              ~> (pc[t] \in {"w_ret", "u_ret"} /\ ec[t] = 0 /\ owner = t)

\* C12 witness: both callers, blocked when notify_all() was called, are out
\* of the blocked state, one of them back from its underlying wait.
C12_Witness ==
    \E t \in Waiters, u \in Waiters :
        /\ t # u
        /\ cause[t] = "notify" /\ cause[u] = "notify"
        /\ pc[t] \in {"w_ret", "u_ret"} /\ owner = t
        /\ pc[u] = "woken"
        /\ waiters = {}

\* Thread t is in a call of wait_for(lock, d) with d > 0 and the lock held.
PlainTimed(t) ==
    op[t] = "wait_for" /\ lk[t] = "held" /\ rel_time[t] > 0

Decided(o) == ctor[o].pc \in {"throw_check", "failed", "live"}

\* C14: the constructor raises exactly when a step failed and then leaves no
\* initialised cv_; it returns normally only with cv_ initialised on the
\* monotonic clock; once line 19 is reached cvattr has been destroyed exactly
\* once if its init succeeded and never if it failed; and the initialised
\* attribute holders and condition objects are exactly those of the
\* constructions in progress and of the live objects, so none is left when
\* every object is gone.
C14_ConstructionAllOrNothing ==
    /\ \A o \in Objects :
          /\ ctor[o].pc = "failed"
                => ctor[o].failedAt # "none" /\ ctor[o].cv_ = "uninit"
          /\ ctor[o].pc = "live"
                => ctor[o].failedAt = "none" /\ ctor[o].cv_ = "monotonic"
          /\ Decided(o)
                => /\ ctor[o].ec # 0 <=> ctor[o].failedAt # "none"
                   /\ IF ctor[o].failedAt = "attr_init"
                      THEN ctor[o].cvattr = "uninit" /\ ctor[o].destroys = 0
                      ELSE ctor[o].cvattr = "destroyed" /\ ctor[o].destroys = 1
    /\ liveAttrs = Cardinality({o \in Objects :
                                  ctor[o].cvattr \in {"realtime", "monotonic"}})
    /\ liveConds = Cardinality({o \in Objects : ctor[o].cv_ # "uninit"})
    /\ (\A o \in Objects : Decided(o) \/ ctor[o].pc = "none") => liveAttrs = 0
    /\ (\A o \in Objects : ctor[o].pc \in {"none", "failed"}) => liveConds = 0

\* C14 witness: a construction that failed at pthread_cond_init, its
\* attribute holder destroyed, next to one that failed at
\* pthread_condattr_init.
C14_Witness ==
    \E o \in Objects, q \in Objects :
        /\ ctor[o].pc = "failed" /\ ctor[o].failedAt = "cond_init"
        /\ ctor[o].destroys = 1
        /\ ctor[q].pc = "failed" /\ ctor[q].failedAt = "attr_init"
        /\ ctor[q].destroys = 0

\* Thread t is in a call of a predicate form with the lock held.
PredCall(t) == op[t] \in PredOps /\ lk[t] = "held"

\* C15: in the predicate forms called with the lock held, the caller owns
\* the mutex at every evaluation of pred(); after the underlying wait has
\* returned without error the next statement of the call evaluates pred();
\* and the call returns only from an evaluation of pred(), true unless the
\* evaluation follows a timeout.
C15_PredEvaluatedUnderLock ==
    /\ [](\A t \in Waiters :
            (PredCall(t) /\ pc[t] \in {"pred", "final"}) => owner = t)
    /\ [][\A t \in Waiters :
            PredCall(t)
                => /\ (pc[t] \in {"w_ret", "u_ret"} /\ pc'[t] # pc[t])
                        => pc'[t] \in {"pred", "final", "thrown"}
                   /\ (pc[t] # "ret" /\ pc'[t] = "ret")
                        => /\ pc[t] \in {"pred", "final"}
                           /\ owner = t
                           /\ lastPred'[t] = pred_value
                           /\ pc[t] = "pred" => pred]_vars

\* C15 witness: a timed predicate form woken by a notification with the
\* predicate false is back at the loop test, the caller owning the mutex.
C15_Witness ==
    \E t \in Waiters :
        /\ PredCall(t) /\ op[t] \in TimedOps
        /\ pc[t] = "pred" /\ primCalled[t] /\ cause[t] = "notify"
        /\ status[t] = "no_timeout"
        /\ ~pred
        /\ owner = t

\* C16 as claimed: wait_for(lock, d) and wait_until(lock, t) called with a
\* lock that is not held, associated with a mutex or not, end as wait(lock)
\* does, with PreconditionError, the ownership check made before the lock's
\* mutex is used.
C16_TimedCheckedAsUntimed ==
    \A t \in Waiters :
        (op[t] \in {"wait", "wait_for", "wait_until"} /\ lk[t] # "held")
            => /\ pc[t] # "crashed"
               /\ pc[t] \in {"ret", "thrown"} => result[t] = "PreconditionError"

\* C17: wait_until takes abs_time - Clock::now() once, on the caller's clock
\* as it stands at entry, and keeps that duration for the rest of the call,
\* whatever the caller's clock does later; the deadline is what wait_for
\* computes for that duration: for a time point at or before the caller
\* clock's reading the zero timespec, the monotonic clock not read, otherwise
\* a timespec with its nanoseconds in range; and with the lock held and the
\* time point not in the future the plain form, once blocked, has its
\* deadline reached and returns timeout unless a notify or a spurious wakeup
\* ended the wait.
C17_WaitUntilAsWaitFor ==
    /\ [][\A t \in Waiters :
            /\ (pc[t] = "rel" /\ pc'[t] # "rel")
                  => /\ op[t] \in UntilOps
                     /\ rel_time'[t] = abs_time[t] - wall
                     /\ pc'[t] = EntryPc(IF op[t] = "wait_until"
                                         THEN "wait_for" ELSE "wait_for_pred")
            /\ (op[t] \in UntilOps /\ pc[t] \notin {"idle", "rel", "ret", "thrown"})
                  => rel_time'[t] = rel_time[t] /\ abs_time'[t] = abs_time[t]]_vars
    /\ [](\A t \in Waiters :
            (op[t] \in UntilOps /\ HasDeadline(t))
                => /\ rel_time[t] <= 0 => ts[t] = ZeroTs /\ ~clockRead[t]
                   /\ rel_time[t] > 0
                        => clockRead[t] /\ ts[t].tv_sec >= 1
                             /\ ts[t].tv_nsec >= 0 /\ ts[t].tv_nsec < NanoDen
                   /\ (op[t] = "wait_until" /\ lk[t] = "held" /\ rel_time[t] <= 0)
                        => /\ pc[t] = "blocked" => ~TsBefore(now, ts[t])
                           /\ (pc[t] = "ret" /\ cause[t] \notin {"notify", "spurious"})
                                => result[t] = "timeout")

\* C17 witness: wait_until(lock, t) with t before the caller clock's reading
\* at entry returned timeout on the zero deadline.
C17_Witness ==
    \E t \in Waiters :
        /\ op[t] = "wait_until" /\ lk[t] = "held"
        /\ rel_time[t] < 0 /\ ts[t] = ZeroTs
        /\ pc[t] = "ret" /\ result[t] = "timeout" /\ cause[t] = "timeout"

\* Thread t is in a call of a timed predicate form with the lock held.
TimedPredCall(t) == op[t] \in TimedOps \cap PredOps /\ lk[t] = "held"

\* C18: a timed predicate form computes its deadline once, before the first
\* evaluation of pred() and before any wait, and every timed wait of the call
\* is given that deadline: the deadline changes in no later step of the call,
\* whatever the wakeups; and every such call eventually returns or raises,
\* also when the predicate stays false and wakeups keep arriving.
C18_DeadlineFixedAndTerminates ==
    /\ [][\A t \in Waiters :
            TimedPredCall(t)
                => /\ (pc[t] = "abs" /\ pc'[t] # "abs")
                        => ~primCalled[t] /\ lastPred[t] = "none"
                   /\ (pc[t] # "abs" /\ pc'[t] # "idle") => ts'[t] = ts[t]]_vars
    /\ \A t \in Waiters :
          (TimedPredCall(t) /\ pc[t] = "abs") ~> (pc[t] \in {"ret", "thrown"})

\* C18 witness: wait_for(lock, d, pred) with d > 0, woken by a notification
\* with the predicate false, is blocked again on the deadline computed at
\* entry, which the monotonic clock has reached meanwhile.
C18_Witness ==
    \E t \in Waiters :
        /\ op[t] = "wait_for_pred" /\ lk[t] = "held" /\ rel_time[t] > 0
        /\ pc[t] = "blocked"
        /\ status[t] = "no_timeout" /\ cause[t] = "notify"
        /\ lastPred[t] = "false"
        /\ ~TsBefore(now, ts[t])

\* C19: when wait_for(lock, d, pred) or wait_until(lock, t, pred), called
\* with the lock held, has returned, the caller owns the mutex and the result
\* is the value of its last evaluation of pred(), which is the predicate's
\* value in the state it returns in; false is returned only after a timed
\* wait that reported a timeout; and the evaluation that ends the call yields
\* true whenever the predicate holds, the deadline reached or not.
C19_ResultIsPredAtReturn ==
    /\ [](\A t \in Waiters :
            (TimedPredCall(t) /\ pc[t] = "ret")
                => /\ owner = t
                   /\ result[t] \in {"true", "false"}
                   /\ result[t] = lastPred[t]
                   /\ result[t] = pred_value
                   /\ result[t] = "false"
                        => /\ primCalled[t] /\ ec[t] = ETIMEDOUT
                           /\ status[t] = "timeout" /\ ~pred)
    /\ [][\A t \in Waiters :
            (TimedPredCall(t) /\ pc[t] \in {"pred", "final"} /\ pc'[t] # pc[t] /\ pred)
                => pc'[t] = "ret" /\ result'[t] = "true"]_vars

\* C19 witness: wait_until(lock, t, pred), woken by a notification after its
\* deadline was reached, finds the predicate true at the loop test and
\* returns true.
C19_Witness ==
    \E t \in Waiters :
        /\ op[t] = "wait_until_pred" /\ lk[t] = "held" /\ rel_time[t] > 0
        /\ pc[t] = "ret" /\ result[t] = "true"
        /\ primCalled[t] /\ cause[t] = "notify" /\ status[t] = "no_timeout"
        /\ ~TsBefore(now, ts[t])

\* Thread t is in a call of a predicate form that has not evaluated pred()
\* yet.
BeforeFirstTest(t) ==
    op[t] \in PredOps /\ pc[t] \in {"rel", "abs", "pred"} /\ lastPred[t] = "none"

\* C20: a predicate form that finds pred() true at its first evaluation
\* returns in that step (the timed forms with true) for every state of the
\* lock, held or not; up to and in that step the underlying wait is not
\* called, no ownership check is made, the mutex stays with the caller that
\* held it, and the call leaves the blocked threads and the lock as they are.
C20_TrueOnEntryReturnsAtOnce ==
    /\ [](\A t \in Waiters :
            BeforeFirstTest(t)
                => /\ ~primCalled[t]
                   /\ t \notin waiters
                   /\ result[t] = "none"
                   /\ lk[t] = "held" => owner = t)
    /\ [][\A t \in Waiters :
            BeforeFirstTest(t)
                => /\ (pc'[t] # pc[t] \/ lastPred'[t] # lastPred[t])
                        => /\ waiters' = waiters
                           /\ owner' = owner
                           /\ lk'[t] = lk[t]
                           /\ ~primCalled'[t]
                   /\ (pc[t] = "pred" /\ pred /\ pc'[t] # pc[t])
                        => /\ pc'[t] = "ret"
                           /\ result'[t] = IF op[t] = "wait_pred"
                                           THEN "returned" ELSE "true"]_vars

\* C20 witness: wait_until(lock, t, pred) called with a lock that is not
\* held and the predicate true has returned true, no wait called.
C20_Witness ==
    \E t \in Waiters :
        /\ op[t] = "wait_until_pred" /\ lk[t] = "unheld"
        /\ pc[t] = "ret" /\ result[t] = "true"
        /\ ~primCalled[t] /\ cause[t] = "none"
        /\ owner # t /\ t \notin waiters

====
